---- MODULE Spec2Model ----
(***************************************************************************)
(* A model of the school API: the authentication middleware, the way the   *)
(* application mounts its routers, and the student/teacher controllers     *)
(* (create, list, getById, update, delete) running against one table of    *)
(* the relational store.                                                   *)
(*                                                                         *)
(* Three specifications share the variables:                               *)
(*   SpecApp   one request walking the application's middleware stack;     *)
(*   SpecList  one list request against a table drawn from the tables the  *)
(*             controllers can produce;                                    *)
(*   Spec      create/getById/update/delete/list handlers of concurrent    *)
(*             requests, suspended at their storage calls.                 *)
(*                                                                         *)
(* JavaScript strings are sequences of characters (a relation name or a    *)
(* token is one symbol of the alphabet); a JavaScript value is a record    *)
(* [t, v] with t its type.                                                 *)
(***************************************************************************)
EXTENDS Integers, Sequences, FiniteSets, TLC

VARIABLES
    table,      \* the rows of the resource's table, in creation order
    autoInc,    \* the next identifier the storage generates
    inflight,   \* per connection: the suspended handler, or idle
    resp,       \* what the step just taken sent to a client, if anything
    wire,       \* what the middleware stack did with the request just routed
    deleted,    \* history: ids for which a DELETE has answered 200
    gone,       \* history: ids deleted (200) and not stored again since
    written     \* history: id -> name last stored by a create or an update

vars == <<table, autoInc, inflight, resp, wire, deleted, gone, written>>

----------------------------------------------------------------------------
(* Bounds                                                                  *)

\* Identifiers range over 1..MaxId; no row is created beyond it.
MaxId == 2

\* The longest table SpecList starts from.
MaxRows == 3

Ids == 1..MaxId

\* The two connections whose handlers may be suspended at the same time.
Slots == {"c1", "c2"}

Names == {"Ada", "Bob"}

\* The messages of the exceptions the storage layer raises on its own.
StorageErrors == {"ECONNREFUSED"}

----------------------------------------------------------------------------
(* JavaScript values and strings                                           *)

JsUndefined == [t |-> "undefined", v |-> <<>>]

Str(s) == [t |-> "string", v |-> s]

\* ?include=a&include=b : the query parser hands the handler an array.
JsArray == [t |-> "array", v |-> <<>>]

\* A JavaScript number: NaN, or an integer.
NaN == [nan |-> TRUE, n |-> 0]

Num(n) == [nan |-> FALSE, n |-> n]

\* x || d on a number: NaN and 0 are falsy.
OrDefault(x, d) == IF x.nan \/ x.n = 0 THEN d ELSE x.n

Truthy(val) == ~(val.t = "undefined" \/ (val.t = "string" /\ val.v = <<>>))

RECURSIVE SplitFrom(_, _, _, _)
SplitFrom(s, sep, i, cur) ==
    IF i > Len(s) THEN <<cur>>
    ELSE IF s[i] = sep THEN <<cur>> \o SplitFrom(s, sep, i + 1, <<>>)
    ELSE SplitFrom(s, sep, i + 1, Append(cur, s[i]))

\* String.prototype.split(sep): the segments between the separators; the
\* empty string has one (empty) segment.
Split(s, sep) == SplitFrom(s, sep, 1, <<>>)

RECURSIVE TrimStart(_)
TrimStart(s) ==
    IF s # <<>> /\ Head(s) = " " THEN TrimStart(Tail(s)) ELSE s

RECURSIVE TrimEnd(_)
TrimEnd(s) ==
    IF s # <<>> /\ s[Len(s)] = " " THEN TrimEnd(SubSeq(s, 1, Len(s) - 1)) ELSE s

\* String.prototype.trim()
Trim(s) == TrimEnd(TrimStart(s))

DigitChars == {"0", "1", "2", "3", "4", "5", "6", "7", "8", "9"}

DigitVal(c) ==
    CASE c = "0" -> 0 [] c = "1" -> 1 [] c = "2" -> 2 [] c = "3" -> 3
      [] c = "4" -> 4 [] c = "5" -> 5 [] c = "6" -> 6 [] c = "7" -> 7
      [] c = "8" -> 8 [] c = "9" -> 9

RECURSIVE ReadDigits(_, _, _)
ReadDigits(s, i, acc) ==
    IF i <= Len(s) /\ s[i] \in DigitChars
    THEN ReadDigits(s, i + 1, acc * 10 + DigitVal(s[i]))
    ELSE acc

\* parseInt(val) in radix 10: leading blanks, an optional sign, then the
\* longest run of digits; NaN when there is none.  undefined reads as the
\* text "undefined", which has no digits.
ParseInt(val) ==
    IF val.t # "string" THEN NaN
    ELSE LET s     == TrimStart(val.v)
             neg   == s # <<>> /\ Head(s) = "-"
             body  == IF s # <<>> /\ Head(s) \in {"-", "+"} THEN Tail(s) ELSE s
         IN  IF body = <<>> \/ Head(body) \notin DigitChars THEN NaN
             ELSE Num((IF neg THEN -1 ELSE 1) * ReadDigits(body, 1, 0))

----------------------------------------------------------------------------
(* middleware/auth.js : authenticateJWT                                    *)

\* The claims a good token decodes to.
Claims == [t |-> "claims", v |-> <<"user1">>]

\* jwt.verify(token, JWT_SECRET, callback): the callback's (err, user).  Only
\* an unexpired token signed with the secret verifies; undefined (no second
\* segment in the header) is "jwt must be provided".
JwtVerify(token) ==
    IF token = Str(<<"good">>)
    THEN [err |-> FALSE, user |-> Claims]
    ELSE [err |-> TRUE, user |-> JsUndefined]

\* authHeader.split(' ')[1]
SecondSegment(s) ==
    LET parts == Split(s, " ")
    IN  IF Len(parts) >= 2 THEN Str(parts[2]) ELSE JsUndefined

\* The middleware that forgets the return in the verify callback: it answers
\* 403 and goes on to set req.user and call next.
AuthenticateJWTNoReturn(header) ==
    IF Truthy(header)
    THEN LET r == JwtVerify(SecondSegment(header.v))
         IN  [sent |-> IF r.err THEN <<403>> ELSE <<>>, verifyRan |-> TRUE,
              verifyErr |-> r.err, user |-> r.user, nextCalls |-> 1]
    ELSE [sent |-> <<401>>, verifyRan |-> FALSE, verifyErr |-> FALSE,
          user |-> JsUndefined, nextCalls |-> 0]

\* authenticateJWT(req, res, next): the statuses it sent, whether verify ran
\* and failed, req.user afterwards, and how often next was called.
AuthenticateJWT(header) ==
    IF Truthy(header)
    THEN LET r == JwtVerify(SecondSegment(header.v))
         IN  IF r.err
             THEN [sent |-> <<403>>, verifyRan |-> TRUE, verifyErr |-> TRUE,
                   user |-> JsUndefined, nextCalls |-> 0]
             ELSE [sent |-> <<>>, verifyRan |-> TRUE, verifyErr |-> FALSE,
                   user |-> r.user, nextCalls |-> 1]
    ELSE [sent |-> <<401>>, verifyRan |-> FALSE, verifyErr |-> FALSE,
          user |-> JsUndefined, nextCalls |-> 0]

NoAuth ==
    [sent |-> <<>>, verifyRan |-> FALSE, verifyErr |-> FALSE,
     user |-> JsUndefined, nextCalls |-> 0]

----------------------------------------------------------------------------
(* The application: app.use(...) in order                                  *)

ProtectedMounts == {"/students", "/courses", "/teachers"}

\* The layers mounted on a path, in the order of the app.use calls.
AppStack ==
    << [mount |-> "/students", auth |-> FALSE],
       [mount |-> "/courses",  auth |-> FALSE],
       [mount |-> "/teachers", auth |-> FALSE],
       [mount |-> "/courses",  auth |-> TRUE],
       [mount |-> "/students", auth |-> TRUE],
       [mount |-> "/teachers", auth |-> TRUE] >>

\* The routes of a resource router: POST /, GET /, GET /:id, PUT /:id,
\* DELETE /:id.
RouterHandler(method, rest) ==
    CASE method = "POST"   /\ rest = "/"    -> "create"
      [] method = "GET"    /\ rest = "/"    -> "list"
      [] method = "GET"    /\ rest = "/:id" -> "getById"
      [] method = "PUT"    /\ rest = "/:id" -> "update"
      [] method = "DELETE" /\ rest = "/:id" -> "delete"
      [] OTHER -> "none"

Methods == {"GET", "POST", "PUT", "DELETE", "PATCH"}

Rests == {"/", "/:id"}

\* Authorization header values: absent, empty, and scheme/token texts.
Headers ==
    { JsUndefined,
      Str(<<>>),
      Str(<<"Bearer">>),
      Str(<<"Bearer", " ", "good">>),
      Str(<<"Bearer", " ", "expired">>),
      Str(<<"Bearer", " ", "garbage">>),
      Str(<<"good">>),
      Str(<<"Basic", " ", "good">>),
      Str(<<"Bearer", " ", " ", "good">>) }

\* Express walks the stack from layer i: a router whose route matches runs
\* the handler and ends the walk; the middleware ends it unless it calls
\* next; a request no layer answers gets the framework's 404.
RECURSIVE Walk(_, _, _, _)
Walk(stack, i, req, auth) ==
    IF i > Len(stack)
    THEN [handler |-> "none", status |-> 404, auth |-> auth,
          verified |-> auth.nextCalls > 0]
    ELSE IF stack[i].mount # req.mount THEN Walk(stack, i + 1, req, auth)
    ELSE LET a == IF stack[i].auth THEN AuthenticateJWT(req.header) ELSE auth
             h == RouterHandler(req.method, req.rest)
         IN  IF stack[i].auth /\ a.nextCalls = 0
             THEN [handler |-> "none", status |-> a.sent[1], auth |-> a,
                   verified |-> FALSE]
             ELSE IF h # "none"
             THEN [handler |-> h, status |-> 0, auth |-> a,
                   verified |-> a.nextCalls > 0]
             ELSE Walk(stack, i + 1, req, a)

Dispatch(req) == Walk(AppStack, 1, req, NoAuth)

NoWire == [t |-> "none"]

NoResp == [t |-> "none"]

Idle == [pc |-> "idle"]

InitCommon ==
    /\ autoInc = 1
    /\ inflight = [s \in Slots |-> Idle]
    /\ resp = NoResp
    /\ wire = NoWire
    /\ deleted = {}
    /\ gone = {}
    /\ written = <<>>

InitApp ==
    /\ table = <<>>
    /\ InitCommon

\* A request arrives and the stack decides who answers it.
Route ==
    /\ wire = NoWire
    /\ \E m \in ProtectedMounts, method \in Methods, rest \in Rests,
          h \in Headers :
           LET req == [mount |-> m, method |-> method, rest |-> rest,
                       header |-> h]
           IN  wire' = [t |-> "routed", req |-> req, out |-> Dispatch(req)]
    /\ UNCHANGED <<table, autoInc, inflight, resp, deleted, gone, written>>

\* The answer has left; the next request can be routed.
SettleApp ==
    /\ wire # NoWire
    /\ wire' = NoWire
    /\ UNCHANGED <<table, autoInc, inflight, resp, deleted, gone, written>>

NextApp == Route \/ SettleApp

SpecApp == InitApp /\ [][NextApp]_vars

----------------------------------------------------------------------------
(* The storage layer: one table, rows in creation order                    *)

RowIds(t) == {t[i].id : i \in 1..Len(t)}

HasRow(t, id) == id \in RowIds(t)

RowOf(t, id) == t[CHOOSE i \in 1..Len(t) : t[i].id = id]

RECURSIVE Reverse(_)
Reverse(s) == IF s = <<>> THEN <<>> ELSE Append(Reverse(Tail(s)), Head(s))

Min(a, b) == IF a < b THEN a ELSE b

\* What the database does with a negative LIMIT or OFFSET depends on the
\* dialect the deployment configures: "strict" ones reject the statement,
\* "sqlite" reads a negative LIMIT as no limit and a negative OFFSET as 0.
Dialects == {"strict", "sqlite"}

\* An include element the ORM can eager-load is one of the handler's own
\* relation descriptors; anything else makes the call throw.
IncludeUsable(inc) ==
    inc.t = "undefined" \/ \A i \in 1..Len(inc.v) : inc.v[i].own

\* Model.findAndCountAll(options): count is the number of rows of the table
\* (distinct: true); rows are those at offset .. offset+limit-1 of the table
\* ordered by createdAt in the direction asked for.
FindAndCountAll(t, options, dialect) ==
    LET ordered == IF options.order = "ASC" THEN t ELSE Reverse(t)
        off     == IF options.offset < 0 THEN 0 ELSE options.offset
        last    == IF options.limit < 0 THEN Len(t)
                   ELSE Min(off + options.limit, Len(t))
    IN  IF ~IncludeUsable(options.include)
        THEN [raised |-> TRUE, message |-> "Include unexpected", count |-> 0,
              rows |-> <<>>]
        ELSE IF (options.limit < 0 \/ options.offset < 0) /\ dialect = "strict"
        THEN [raised |-> TRUE, message |-> "SQL syntax", count |-> 0,
              rows |-> <<>>]
        ELSE [raised |-> FALSE, message |-> "", count |-> Len(t),
              rows |-> SubSeq(ordered, off + 1, last)]

----------------------------------------------------------------------------
(* Controllers: what every handler does with a storage exception           *)

\* A handler that answers a storage exception as if nothing was found.
OnStorageErrorNotFound(message) ==
    [status |-> 404, body |-> [message |-> "Not found"]]

\* catch (err) { res.status(500).json({ error: err.message }) }
OnStorageError(message) ==
    [status |-> 500, body |-> [error |-> message]]

NotFound == [status |-> 404, body |-> [message |-> "Not found"]]

----------------------------------------------------------------------------
(* Controllers: getAllStudents / getAllTeachers                            *)

Kinds == {"Student", "Teacher"}

\* The keys the handler's validRelations literal defines, per resource.
OwnRelations(kind) ==
    IF kind = "Student" THEN {"Courses", "Teacher"} ELSE {"Courses", "Students"}

\* Keys every object literal inherits from Object.prototype.
InheritedKeys == {"constructor", "toString"}

\* validRelations[key]: the literal's descriptor, an inherited member, or
\* undefined.  A key is a trimmed segment of the include text.
ValidRelationsLookup(kind, key) ==
    IF Len(key) = 1 /\ key[1] \in OwnRelations(kind)
    THEN [found |-> TRUE, own |-> TRUE, model |-> key[1]]
    ELSE IF Len(key) = 1 /\ key[1] \in InheritedKeys
    THEN [found |-> TRUE, own |-> FALSE, model |-> key[1]]
    ELSE [found |-> FALSE, own |-> FALSE, model |-> ""]

RECURSIVE CollectIncludes(_, _, _)
CollectIncludes(kind, segments, i) ==
    IF i > Len(segments) THEN <<>>
    ELSE LET r == ValidRelationsLookup(kind, Trim(segments[i]))
         IN  (IF r.found THEN <<[own |-> r.own, model |-> r.model]>> ELSE <<>>)
             \o CollectIncludes(kind, segments, i + 1)

\* const includeParam = req.query.include || ''
IncludeParam(query) == IF Truthy(query.include) THEN query.include ELSE Str(<<>>)

\* includeParam.split(',').forEach(...): the include list
BuildInclude(kind, includeParam) ==
    CollectIncludes(kind, Split(includeParam.v, ","), 1)

\* Math.ceil(count / limit) for count >= 0 and limit # 0
CeilDiv(count, limit) ==
    IF limit > 0 THEN (count + limit - 1) \div limit
    ELSE -(count \div (-limit))

SortOrder(query) ==
    IF query.sort = Str(<<"a", "s", "c">>) THEN "ASC" ELSE "DESC"

\* A handler that turns the page number itself into the offset.
FindOptionsOffByOne(kind, query) ==
    LET limit   == OrDefault(ParseInt(query.limit), 10)
        page    == OrDefault(ParseInt(query.page), 1)
        include == BuildInclude(kind, IncludeParam(query))
    IN  [include |-> IF Len(include) > 0
                     THEN [t |-> "array", v |-> include]
                     ELSE [t |-> "undefined", v |-> <<>>],
         limit   |-> limit,
         offset  |-> page * limit,
         order   |-> SortOrder(query)]

\* The options the list handler passes to findAndCountAll.
FindOptions(kind, query) ==
    LET limit   == OrDefault(ParseInt(query.limit), 10)
        page    == OrDefault(ParseInt(query.page), 1)
        include == BuildInclude(kind, IncludeParam(query))
    IN  [include |-> IF Len(include) > 0
                     THEN [t |-> "array", v |-> include]
                     ELSE [t |-> "undefined", v |-> <<>>],
         limit   |-> limit,
         offset  |-> (page - 1) * limit,
         order   |-> SortOrder(query)]

\* The body of the 200 answer.
Envelope(query, count, rows) ==
    LET limit == OrDefault(ParseInt(query.limit), 10)
        page  == OrDefault(ParseInt(query.page), 1)
        param == IncludeParam(query)
    IN  [meta |-> [totalItems |-> count,
                   totalPages |-> CeilDiv(count, limit),
                   currentPage |-> page,
                   itemsPerPage |-> limit,
                   sortOrder |-> SortOrder(query),
                   includedRelations |->
                       IF Truthy(param) THEN param ELSE Str(<<"none">>)],
         data |-> rows]

\* What a rejected promise of an async handler becomes: the framework's
\* fourth major version leaves the request unanswered, its fifth hands the
\* error to the default error handler, which answers 500.
Frameworks == {"v4", "v5"}

\* The whole list handler on table t.  fault is the exception the storage
\* raises on its own ("" for none).
GetAll(kind, query, t, dialect, fault, framework) ==
    IF IncludeParam(query).t # "string"
    THEN \* includeParam.split is not a function: thrown before the try
         [t |-> "ctl", op |-> "list", kind |-> kind, query |-> query,
          options |-> [include |-> JsUndefined, limit |-> 0, offset |-> 0,
                       order |-> ""],
          sent |-> 0, by |-> IF framework = "v5" THEN "framework" ELSE "nobody",
          status |-> IF framework = "v5" THEN 500 ELSE 0,
          body |-> [error |-> "TypeError"], raised |-> FALSE, storageCalls |-> 0,
          writes |-> 0, message |-> "", dialect |-> dialect, fault |-> fault,
          framework |-> framework]
    ELSE LET options == FindOptions(kind, query)
             r == IF fault # ""
                  THEN [raised |-> TRUE, message |-> fault, count |-> 0,
                        rows |-> <<>>]
                  ELSE FindAndCountAll(t, options, dialect)
             a == IF r.raised THEN OnStorageError(r.message)
                  ELSE [status |-> 200,
                        body |-> Envelope(query, r.count, r.rows)]
         IN  [t |-> "ctl", op |-> "list", kind |-> kind, query |-> query,
              options |-> options, sent |-> 1, by |-> "handler",
              status |-> a.status, body |-> a.body, raised |-> r.raised,
              storageCalls |-> 1, writes |-> 0, message |-> r.message,
              dialect |-> dialect, fault |-> fault, framework |-> framework]

Digits3 == {<<"0">>, <<"1">>, <<"2">>, <<"-", "1">>, <<"a", "b">>, <<"2", "x">>}

LimitValues == {JsUndefined} \cup {Str(s) : s \in Digits3}

PageValues == {JsUndefined} \cup {Str(s) : s \in {<<"0">>, <<"1">>, <<"2">>, <<"-", "1">>}}

SortValues ==
    {JsUndefined, Str(<<"a", "s", "c">>), Str(<<"d", "e", "s", "c">>),
     Str(<<"A", "S", "C">>)}

IncludeValues ==
    { JsUndefined, JsArray,
      Str(<<>>),
      Str(<<"Courses">>),
      Str(<<"Students">>),
      Str(<<"bogus">>),
      Str(<<"constructor">>),
      Str(<<"bogus", ",", "x", " ", "y">>),
      Str(<<" ", "Teacher", " ", ",", "Courses">>),
      Str(<<"Courses", ",", "Courses">>) }

Queries ==
    [limit : LimitValues, page : PageValues, sort : SortValues,
     include : IncludeValues]

\* The queries of the list requests that run beside the other handlers.
DefaultQuery ==
    [limit |-> JsUndefined, page |-> JsUndefined, sort |-> JsUndefined,
     include |-> JsUndefined]

\* Tables of up to MaxRows rows: ids generated in creation order, or chosen
\* by the clients in the opposite order.
IdSeqs ==
    {[i \in 1..n |-> i] : n \in 0..MaxRows}
        \cup {[i \in 1..n |-> n + 1 - i] : n \in 0..MaxRows}

TableOf(ids) == [i \in 1..Len(ids) |-> [id |-> ids[i], name |-> "Ada"]]

WrittenOf(t) == [id \in RowIds(t) |-> RowOf(t, id).name]

InitList ==
    /\ \E ids \in IdSeqs : table = TableOf(ids)
    /\ autoInc = MaxRows + 1
    /\ inflight = [s \in Slots |-> Idle]
    /\ resp = NoResp
    /\ wire = NoWire
    /\ deleted = {}
    /\ gone = {}
    /\ written = WrittenOf(table)

\* GET /students or /teachers with a query string, answered in full.
ListRequest ==
    /\ resp = NoResp
    /\ \E kind \in Kinds, query \in Queries, dialect \in Dialects,
          fault \in StorageErrors \cup {""}, framework \in Frameworks :
           resp' = GetAll(kind, query, table, dialect, fault, framework)
    /\ UNCHANGED <<table, autoInc, inflight, wire, deleted, gone, written>>

\* The answer has left; the next request can be looked at.
Settle ==
    /\ (resp # NoResp \/ wire # NoWire)
    /\ resp' = NoResp
    /\ wire' = NoWire
    /\ UNCHANGED <<table, autoInc, inflight, deleted, gone, written>>

NextList == ListRequest \/ Settle

SpecList == InitList /\ [][NextList]_vars

----------------------------------------------------------------------------
(* Controllers: createStudent, getStudentById, updateStudent, deleteStudent *)
(* (the teacher controller's handlers are the same code on its own table)  *)

NoRow == [id |-> 0, name |-> ""]

\* Model.findByPk(id): the row, or null.
FindByPk(t, id) ==
    IF HasRow(t, id) THEN [found |-> TRUE, row |-> RowOf(t, id)]
    ELSE [found |-> FALSE, row |-> NoRow]

\* The identifier of the row Model.create(body) inserts: the body's own id
\* when it carries one (the body is passed through whole), else the next
\* auto-increment value.
NewId(body, next) == IF body.id # 0 THEN body.id ELSE next

\* An insert that overwrites the newest row instead of adding one.
InsertRowOverwriting(t, row) ==
    IF t = <<>> THEN <<row>> ELSE [t EXCEPT ![Len(t)] = row]

\* INSERT: the new row is the latest in creation order.
InsertRow(t, row) == Append(t, row)

\* instance.update(body): UPDATE ... WHERE id = :id; no row, no change.
UpdateRow(t, id, name) ==
    [i \in 1..Len(t) |->
        IF t[i].id = id THEN [t[i] EXCEPT !.name = name] ELSE t[i]]

\* A destroy that removes nothing.
DestroyRowNoop(t, id) == t

\* instance.destroy(): DELETE ... WHERE id = :id; no row, no change.
DestroyRow(t, id) == SelectSeq(t, LAMBDA r : r.id # id)

\* The counter after a row with this id went in: past every id ever used.
NextAutoInc(next, id) == IF id >= next THEN id + 1 ELSE next

Faults == StorageErrors \cup {""}

\* The identifiers clients put in a create body (0: the body has none).
ClientIds == {0, 1, 2}

Bodies == [id : ClientIds, name : Names]

\* What the history says of an id when a handler's first storage call runs,
\* and the number of rows its write changed.
Context(id) ==
    [wasGone |-> id \in gone, wasDeleted |-> id \in deleted,
     stored |-> HasRow(table, id), affected |-> 0]

\* What a handler sent, with what the request was, the table before the
\* answering step, and the context of its first storage call.
Answer(op, id, body, a, raised, message, writes, ctx) ==
    [t |-> "ctl", op |-> op, id |-> id, reqBody |-> body, sent |-> 1,
     by |-> "handler", status |-> a.status, body |-> a.body,
     raised |-> raised, message |-> message, writes |-> writes,
     tableBefore |-> table, wasGone |-> ctx.wasGone,
     wasDeleted |-> ctx.wasDeleted, stored |-> ctx.stored,
     affected |-> ctx.affected]

Init ==
    /\ table = <<>>
    /\ InitCommon

\* A delete handler waiting to answer learns nothing of a row created under
\* its id meanwhile; the history notes it.
NoteCreated(id) ==
    [c \in Slots |->
        IF inflight[c].pc = "destroyed" /\ inflight[c].id = id
        THEN [inflight[c] EXCEPT !.recreated = TRUE]
        ELSE inflight[c]]

\* POST /students: the whole handler; its one storage call is the insert.
CreateStudent ==
    /\ resp = NoResp
    /\ \E body \in Bodies, fault \in Faults :
        LET id  == NewId(body, autoInc)
            row == [id |-> id, name |-> body.name]
            a(x, r, m) == Answer("create", id, body, x, r, m, 1, Context(id))
        IN  /\ id <= MaxId
            /\ IF fault # ""
               THEN /\ resp' = a(OnStorageError(fault), TRUE, fault)
                    /\ UNCHANGED <<table, autoInc, inflight, gone, written>>
               ELSE IF HasRow(table, id)
               THEN /\ resp' = a(OnStorageError("Validation error"), TRUE,
                                 "Validation error")
                    /\ UNCHANGED <<table, autoInc, inflight, gone, written>>
               ELSE /\ table' = InsertRow(table, row)
                    /\ autoInc' = NextAutoInc(autoInc, id)
                    /\ inflight' = NoteCreated(id)
                    /\ gone' = gone \ {id}
                    /\ written' = [i \in DOMAIN written \cup {id} |->
                                      IF i = id THEN body.name ELSE written[i]]
                    /\ resp' = a([status |-> 201, body |-> row], FALSE, "")
    /\ UNCHANGED <<wire, deleted>>

\* GET /students/:id: the whole handler; its one storage call is the read.
GetStudentById ==
    /\ resp = NoResp
    /\ \E id \in Ids, fault \in Faults :
        LET f == FindByPk(table, id)
            a(x, r, m) == Answer("getById", id, NoRow, x, r, m, 0, Context(id))
        IN  resp' = IF fault # "" THEN a(OnStorageError(fault), TRUE, fault)
                    ELSE IF ~f.found THEN a(NotFound, FALSE, "")
                    ELSE a([status |-> 200, body |-> f.row], FALSE, "")
    /\ UNCHANGED <<table, autoInc, inflight, wire, deleted, gone, written>>

\* GET /students beside the other handlers.
GetAllStudents ==
    /\ resp = NoResp
    /\ \E fault \in Faults :
        resp' = GetAll("Student", DefaultQuery, table, "strict", fault, "v4")
    /\ UNCHANGED <<table, autoInc, inflight, wire, deleted, gone, written>>

Suspended(c, pc, id, name, ctx) ==
    [inflight EXCEPT ![c] =
        [pc |-> pc, id |-> id, name |-> name, ctx |-> ctx,
         recreated |-> FALSE]]

\* PUT /students/:id up to its second storage call: findByPk, the 404 when it
\* finds nothing, else the handler waits on instance.update.
UpdateFind(c) ==
    /\ resp = NoResp
    /\ inflight[c] = Idle
    /\ \E id \in Ids, name \in Names, fault \in Faults :
        LET f == FindByPk(table, id)
            body == [id |-> 0, name |-> name]
            a(x, r, m) == Answer("update", id, body, x, r, m, 0, Context(id))
        IN  IF fault # ""
            THEN resp' = a(OnStorageError(fault), TRUE, fault)
                 /\ UNCHANGED inflight
            ELSE IF ~f.found
            THEN resp' = a(NotFound, FALSE, "") /\ UNCHANGED inflight
            ELSE /\ inflight' = Suspended(c, "update", id, name, Context(id))
                 /\ UNCHANGED resp
    /\ UNCHANGED <<table, autoInc, wire, deleted, gone, written>>

\* instance.update(req.body) runs in the storage.
UpdateWrite(c) ==
    /\ resp = NoResp
    /\ inflight[c].pc = "update"
    /\ LET r == inflight[c]
           body == [id |-> 0, name |-> r.name]
       IN  \E fault \in Faults :
            IF fault # ""
            THEN /\ resp' = Answer("update", r.id, body, OnStorageError(fault),
                                   TRUE, fault, 1, r.ctx)
                 /\ inflight' = [inflight EXCEPT ![c] = Idle]
                 /\ UNCHANGED <<table, written>>
            ELSE /\ table' = UpdateRow(table, r.id, r.name)
                 /\ written' = IF r.id \in DOMAIN written
                               THEN [written EXCEPT ![r.id] = r.name]
                               ELSE written
                 /\ inflight' = [inflight EXCEPT
                        ![c].pc = "updated",
                        ![c].ctx.affected = IF HasRow(table, r.id) THEN 1
                                            ELSE 0]
                 /\ UNCHANGED resp
    /\ UNCHANGED <<autoInc, wire, deleted, gone>>

\* res.json(student): the instance with the body's fields set on it.
UpdateRespond(c) ==
    /\ resp = NoResp
    /\ inflight[c].pc = "updated"
    /\ LET r == inflight[c]
       IN  resp' = Answer("update", r.id, [id |-> 0, name |-> r.name],
                          [status |-> 200,
                           body |-> [id |-> r.id, name |-> r.name]],
                          FALSE, "", 1, r.ctx)
    /\ inflight' = [inflight EXCEPT ![c] = Idle]
    /\ UNCHANGED <<table, autoInc, wire, deleted, gone, written>>

\* DELETE /students/:id up to its second storage call.
DeleteFind(c) ==
    /\ resp = NoResp
    /\ inflight[c] = Idle
    /\ \E id \in Ids, fault \in Faults :
        LET f == FindByPk(table, id)
            a(x, r, m) == Answer("delete", id, NoRow, x, r, m, 0, Context(id))
        IN  IF fault # ""
            THEN resp' = a(OnStorageError(fault), TRUE, fault)
                 /\ UNCHANGED inflight
            ELSE IF ~f.found
            THEN resp' = a(NotFound, FALSE, "") /\ UNCHANGED inflight
            ELSE /\ inflight' = Suspended(c, "delete", id, "", Context(id))
                 /\ UNCHANGED resp
    /\ UNCHANGED <<table, autoInc, wire, deleted, gone, written>>

\* instance.destroy() runs in the storage.
DeleteDestroy(c) ==
    /\ resp = NoResp
    /\ inflight[c].pc = "delete"
    /\ LET r == inflight[c]
       IN  \E fault \in Faults :
            IF fault # ""
            THEN /\ resp' = Answer("delete", r.id, NoRow, OnStorageError(fault),
                                   TRUE, fault, 1, r.ctx)
                 /\ inflight' = [inflight EXCEPT ![c] = Idle]
                 /\ UNCHANGED <<table, written>>
            ELSE /\ table' = DestroyRow(table, r.id)
                 /\ written' = [i \in DOMAIN written \ {r.id} |-> written[i]]
                 /\ inflight' = [inflight EXCEPT
                        ![c].pc = "destroyed",
                        ![c].ctx.affected = IF HasRow(table, r.id) THEN 1
                                            ELSE 0]
                 /\ UNCHANGED resp
    /\ UNCHANGED <<autoInc, wire, deleted, gone>>

\* res.json({ message: 'Deleted' })
DeleteRespond(c) ==
    /\ resp = NoResp
    /\ inflight[c].pc = "destroyed"
    /\ LET r == inflight[c]
       IN  /\ resp' = Answer("delete", r.id, NoRow,
                             [status |-> 200, body |-> [message |-> "Deleted"]],
                             FALSE, "", 1, r.ctx)
           /\ deleted' = deleted \cup {r.id}
           /\ gone' = IF r.recreated THEN gone ELSE gone \cup {r.id}
    /\ inflight' = [inflight EXCEPT ![c] = Idle]
    /\ UNCHANGED <<table, autoInc, wire, written>>

Next ==
    \/ CreateStudent
    \/ GetStudentById
    \/ GetAllStudents
    \/ \E c \in Slots : UpdateFind(c)
    \/ \E c \in Slots : UpdateWrite(c)
    \/ \E c \in Slots : UpdateRespond(c)
    \/ \E c \in Slots : DeleteFind(c)
    \/ \E c \in Slots : DeleteDestroy(c)
    \/ \E c \in Slots : DeleteRespond(c)
    \/ Settle

Spec == Init /\ [][Next]_vars

----------------------------------------------------------------------------
(* Properties of the middleware stack (SpecApp)                            *)

Routed == wire.t = "routed"

TokenFails(header) == JwtVerify(SecondSegment(header.v)).err

\* C1: every request to a protected path without an Authorization header is
\* answered 401, one with a malformed or expired token 403, and a controller
\* handler runs only for a request whose token was verified.
C1_AuthPrecedesHandler ==
    Routed =>
        /\ wire.req.header = JsUndefined => wire.out.status = 401
        /\ (wire.req.header.t = "string" /\ TokenFails(wire.req.header))
               => wire.out.status = 403
        /\ wire.out.handler # "none" => wire.out.verified

AuthRan == Routed /\ wire.out.auth # NoAuth

Outcome401(a) == a.sent = <<401>> /\ a.nextCalls = 0

Outcome403(a) == a.sent = <<403>> /\ a.nextCalls = 0 /\ a.user = JsUndefined

OutcomeNext(a) == a.sent = <<>> /\ a.nextCalls = 1 /\ a.user = Claims

ExactlyOneOutcome(a) ==
    /\ Outcome401(a) \/ Outcome403(a) \/ OutcomeNext(a)
    /\ ~(Outcome401(a) /\ Outcome403(a))
    /\ ~(Outcome401(a) /\ OutcomeNext(a))
    /\ ~(Outcome403(a) /\ OutcomeNext(a))

\* C2 as stated: the middleware takes exactly one of three outcomes: header
\* absent -> 401 and next never called; header present but the token does not
\* verify -> 403, next never called, req.user unset; the token verifies ->
\* claims in req.user, next called once, nothing sent.
C2_AsStated ==
    AuthRan =>
        LET a == wire.out.auth
            h == wire.req.header
        IN  /\ ExactlyOneOutcome(a)
            /\ h = JsUndefined <=> Outcome401(a)
            /\ (h # JsUndefined /\ TokenFails(h)) <=> Outcome403(a)
            /\ (h # JsUndefined /\ ~TokenFails(h)) <=> OutcomeNext(a)

\* C2 amended: the 401 outcome is that of an absent or empty header; the 403
\* outcome that of a non-empty header whose token does not verify.
C2_AuthOutcomes ==
    AuthRan =>
        LET a == wire.out.auth
            h == wire.req.header
            blank == h = JsUndefined \/ h = Str(<<>>)
        IN  /\ ExactlyOneOutcome(a)
            /\ blank <=> Outcome401(a)
            /\ (~blank /\ TokenFails(h)) <=> Outcome403(a)
            /\ (~blank /\ ~TokenFails(h)) <=> OutcomeNext(a)

\* A verified token has passed the middleware, and so has an expired one been
\* stopped by it.
C2_Witness ==
    /\ AuthRan
    /\ wire.req.header = Str(<<"Bearer", " ", "expired">>)
    /\ Outcome403(wire.out.auth)

----------------------------------------------------------------------------
(* Properties of the list handler (SpecList)                               *)

Listed == resp.t = "ctl" /\ resp.op = "list"

EffLimit(query) == OrDefault(ParseInt(query.limit), 10)

EffPage(query) == OrDefault(ParseInt(query.page), 1)

\* k is the least integer not below n / l.
IsCeil(k, n, l) ==
    IF l > 0 THEN k * l >= n /\ (k - 1) * l < n
    ELSE k * l <= n /\ (k - 1) * l > n

\* The row at 0-based position p of the creation-time ordering of t in the
\* direction asked for.
RowAt(t, dir, p) == IF dir = "ASC" THEN t[p + 1] ELSE t[Len(t) - p]

\* data holds exactly the rows at positions lo..hi that exist.
IsPageOf(data, t, dir, lo, hi) ==
    LET ps == {p \in lo..hi : 0 <= p /\ p < Len(t)}
    IN  /\ Len(data) = Cardinality(ps)
        /\ \A p \in ps : \E k \in 1..Len(data) :
               /\ data[k] = RowAt(t, dir, p)
               /\ k = Cardinality({q \in ps : q <= p})

PageHolds ==
    LET l == EffLimit(resp.query)
        p == EffPage(resp.query)
        m == resp.body.meta
    IN  /\ m.totalItems = Len(table)
        /\ IsCeil(m.totalPages, Len(table), l)
        /\ m.currentPage = p
        /\ m.itemsPerPage = l
        /\ IsPageOf(resp.body.data, table, SortOrder(resp.query),
                    (p - 1) * l, (p - 1) * l + l - 1)

\* C5 as stated: every list envelope has totalItems N, totalPages ceil(N/L),
\* currentPage P, itemsPerPage L, and data the rows at positions
\* (P-1)*L .. (P-1)*L+L-1 of the creation-time ordering.
C5_AsStated == (Listed /\ resp.status = 200) => PageHolds

\* C5 amended: the same, for the list requests whose effective limit and
\* page are both at least 1.
C5_Pagination ==
    (Listed /\ resp.status = 200 /\ EffLimit(resp.query) >= 1
        /\ EffPage(resp.query) >= 1) => PageHolds

\* The second page of a three-row table, two rows a page, has one row.
C5_Witness ==
    /\ Listed /\ resp.status = 200
    /\ Len(table) = 3
    /\ EffLimit(resp.query) = 2 /\ EffPage(resp.query) = 2
    /\ Len(resp.body.data) = 1
    /\ resp.body.meta.totalPages = 2

\* The names an include text asks for.
AskedNames(param) ==
    LET segs == Split(param.v, ",")
    IN  {Trim(segs[i]) : i \in 1..Len(segs)}

OnlyUnknown(kind, query) ==
    /\ query.include.t = "string"
    /\ \A n \in AskedNames(query.include) :
           \A r \in OwnRelations(kind) : n # <<r>>

\* C6: a list request whose include names nothing of the allow-list issues
\* the query and returns the data of the same request without include, and
\* includedRelations echoes the raw text ('none' only when it is empty).
C6_UnknownIncludeDropped ==
    (Listed /\ OnlyUnknown(resp.kind, resp.query)) =>
        LET bare == GetAll(resp.kind,
                           [resp.query EXCEPT !.include = JsUndefined],
                           table, resp.dialect, resp.fault, resp.framework)
        IN  /\ resp.options = bare.options
            /\ resp.status = bare.status
            /\ resp.status = 200 =>
                   /\ resp.body.data = bare.body.data
                   /\ resp.body.meta.includedRelations =
                          IF resp.query.include.v = <<>> THEN Str(<<"none">>)
                          ELSE resp.query.include

\* C9: every request that reaches a handler ends with exactly one response,
\* 200/201, 404 or 500, sent by the handler.
C9_ExactlyOneResponse ==
    resp.t = "ctl" =>
        /\ resp.sent = 1
        /\ resp.by = "handler"
        /\ resp.status \in {200, 201, 404, 500}

----------------------------------------------------------------------------
(* Properties of the concurrent handlers (Spec)                            *)

Answered(ops) == resp.t = "ctl" /\ resp.op \in ops

IsNotFound == resp.status = 404 /\ resp.body = [message |-> "Not found"]

\* C3 as stated: once a DELETE of an id has answered 200, every later
\* getById, update or delete on that id answers 404 Not found (a storage
\* exception aside); a delete on an id that is not in the store answers 404
\* and leaves the store unchanged.
C3_AsStated ==
    /\ (Answered({"getById", "update", "delete"}) /\ resp.wasDeleted
           /\ ~resp.raised) => IsNotFound
    /\ (Answered({"delete"}) /\ ~resp.stored /\ ~resp.raised)
           => (IsNotFound /\ table = resp.tableBefore)

\* C3 amended: the later requests answer 404 for as long as no create has
\* stored a record under that id again since its row was removed; until then
\* no row with that id is in the store.
C3_DeletedStaysGone ==
    /\ gone \cap RowIds(table) = {}
    /\ (Answered({"getById", "update", "delete"}) /\ resp.wasGone
           /\ ~resp.raised) => IsNotFound
    /\ (Answered({"delete"}) /\ ~resp.stored /\ ~resp.raised)
           => (IsNotFound /\ table = resp.tableBefore)

\* A getById on an id whose DELETE has answered 200 is answered 404.
C3_Witness ==
    /\ Answered({"getById"}) /\ resp.wasGone /\ resp.wasDeleted
    /\ resp.status = 404

\* C4: create answers 201 with the body's fields and an identifier no other
\* stored record has; from then on, until a delete of that identifier
\* succeeds, the record stays stored and getById answers 200 with it.
C4_CreateThenGet ==
    /\ Cardinality(RowIds(table)) = Len(table)
    /\ DOMAIN written = RowIds(table)
    /\ \A id \in RowIds(table) : RowOf(table, id).name = written[id]
    /\ (Answered({"create"}) /\ ~resp.raised) =>
           /\ resp.status = 201
           /\ resp.body.name = resp.reqBody.name
           /\ resp.reqBody.id # 0 => resp.body.id = resp.reqBody.id
           /\ resp.body.id \notin RowIds(resp.tableBefore)
           /\ HasRow(table, resp.body.id)
           /\ RowOf(table, resp.body.id) = resp.body
    /\ (Answered({"getById"}) /\ resp.stored /\ ~resp.raised) =>
           /\ resp.status = 200
           /\ resp.body = [id |-> resp.id, name |-> written[resp.id]]

\* A second record was created, renamed, and fetched.
C4_Witness ==
    /\ Answered({"getById"}) /\ resp.status = 200
    /\ Len(table) = 2
    /\ resp.body = [id |-> 2, name |-> "Bob"]
    /\ table[2] = [id |-> 2, name |-> "Bob"]

\* C7: an update of an id not in the store answers 404 and changes nothing;
\* otherwise it applies the body's fields onto the existing record and
\* answers 200 with the record as it stored it, every other record being as
\* it was last written.
C7_UpdateFrame ==
    /\ \A id \in RowIds(table) \cap DOMAIN written :
           RowOf(table, id).name = written[id]
    /\ (Answered({"update"}) /\ ~resp.raised) =>
           IF ~resp.stored
           THEN IsNotFound /\ table = resp.tableBefore
           ELSE /\ resp.status = 200
                /\ resp.body.name = resp.reqBody.name
                /\ resp.affected = 1

\* C8: whenever a storage call raises, the handler answers 500 with the
\* raised message as error, and has attempted at most one write.
C8_StorageErrorIs500 ==
    (resp.t = "ctl" /\ resp.raised) =>
        /\ resp.status = 500
        /\ resp.body = [error |-> resp.message]
        /\ resp.writes <= 1

\* The write of an update raised.
C8_Witness ==
    /\ Answered({"update"}) /\ resp.raised /\ resp.writes = 1
    /\ resp.status = 500

\* C10: under every interleaving, a PUT never reports success for a record
\* that a concurrent DELETE has already removed: the write of a PUT that
\* answers 200 changed a row.
C10_PutNeverSucceedsOnRemoved ==
    (Answered({"update"}) /\ resp.status = 200) => resp.affected = 1

====
